---- MODULE Spec2Model ----
(***************************************************************************)
(* Model of the movie ingestion pipeline: catalog discovery                *)
(* (step1_build_catalog.py), availability refresh                          *)
(* (step2_update_providers.py) and budgeted rating enrichment              *)
(* (step3_fetch_omdb.py) over one SQLite store.                            *)
(*                                                                         *)
(* Each job is a sequential, blocking workflow; one action is one step of  *)
(* a job that ends with (at most) one HTTP request and everything the code *)
(* does with its response.  The external sources are nondeterministic.     *)
(*                                                                         *)
(* Nullable values are encoded as sets: NULL is {} and a value v is {v}.   *)
(* Text the code inspects character by character is a sequence of          *)
(* one-character strings.                                                  *)
(***************************************************************************)
EXTENDS Integers, Sequences, FiniteSets, TLC

\* ------------------------------------------------------------------ bounds
\* Largest total daily budget of the configurations explored (the source
\* fixes 950 / 700; the model explores every split up to this size).
MaxBudget == 3
\* Largest number of movie rows in an initial store.
MaxMovies == 3
\* The page ceiling of a discovery query (the source fixes 500).
PageCeiling == 2

\* --------------------------------------------------------------- variables
VARIABLES
    movie,               \* table movie: a set of rows
    movie_availability,  \* table movie_availability: a set of rows
    now,                 \* datetime.now(), a logical clock
    cfg,                 \* module-level configuration of step3 (budgets, API key)
    e_pc,                \* position of update_omdb_ratings
    e_phase,             \* 1 or 2: which batch process_movie_batch is running
    e_rows,              \* rows of the current batch (missing_rows / refresh_rows)
    e_i,                 \* index of the current row in the batch (1-based)
    total_calls_made,    \* local of update_omdb_ratings
    processed_in_batch,  \* local of process_movie_batch
    budget_limit,        \* parameter of process_movie_batch
    e_reason,            \* reason returned by the id lookup of the current row
    e_last,              \* (omdb_data, path) returned by the last fetch_omdb_data
    e_result,            \* return value of update_omdb_ratings
    lookups_started,     \* history: rows for which fetch_omdb_data was called
    requests_sent,       \* history: session.get calls issued in this run
    phase1_started,      \* history: lookups_started at the end of Phase 1
    refresh_selected,    \* history: what the Phase 2 SELECT saw and returned
    r_pc,                \* position of update_providers_data
    r_movies,            \* movies: the rows of SELECT id, tmdb_id FROM movie
    r_i,                 \* index of the current row of movies (1-based)
    r_result,            \* return value of update_providers_data
    r_last,              \* history: the last entity processed and how it ended
    d_pc,                \* position of monthly_catalog_update
    d_input,             \* arguments of monthly_catalog_update
    d_ranges,            \* ranges_to_process
    d_range,             \* index of the current range in ranges_to_process
    d_page,              \* page, the variable of the page loop
    d_total_pages,       \* local total_pages of fetch_catalog_by_date_range
    movies_processed_in_range,
    d_results,           \* data["results"] of the current page
    d_item,              \* index of the current entry of the page (1-based)
    d_attempt,           \* attempt, the variable of the running retry loop
    d_result,            \* return value of monthly_catalog_update
    d_last_req,          \* history: the last request sent and its response
    d_last_upsert,       \* history: the last call of upsert_movie
    d_persisted,         \* history: rows written in the current range
    d_page1,             \* history: the results of page 1 of the current range
    d_max_page,          \* history: the largest page requested in the current range
    d_clean              \* history: no entry of the range was skipped or lost

storeVars == <<movie, movie_availability, now>>
enrichVars == <<cfg, e_pc, e_phase, e_rows, e_i, total_calls_made,
                processed_in_batch, budget_limit, e_reason, e_last, e_result,
                lookups_started, requests_sent, phase1_started, refresh_selected>>
refreshVars == <<r_pc, r_movies, r_i, r_result, r_last>>
discoveryVars == <<d_pc, d_input, d_ranges, d_range, d_page, d_total_pages,
                   movies_processed_in_range, d_results, d_item, d_attempt, d_result,
                   d_last_req, d_last_upsert, d_persisted, d_page1, d_max_page,
                   d_clean>>
notEnrich == <<refreshVars, discoveryVars>>
notRefresh == <<enrichVars, discoveryVars>>
notDiscovery == <<enrichVars, refreshVars>>
vars == <<storeVars, enrichVars, refreshVars, discoveryVars>>

\* ----------------------------------------------------------------- values
NULL == {}
Some(v) == {v}
Get(o) == CHOOSE v \in o : TRUE
\* Python truthiness of an optional text or number: None is falsy.  (Empty
\* strings and 0 ids do not occur among the values of the model.)
Falsy(o) == o = NULL

Min(a, b) == IF a <= b THEN a ELSE b
Max(a, b) == IF a >= b THEN a ELSE b

Digits == <<"0", "1", "2", "3", "4", "5", "6", "7", "8", "9">>
IsDigit(c) == \E i \in 1..10 : Digits[i] = c
DigitVal(c) == (CHOOSE i \in 1..10 : Digits[i] = c) - 1

RECURSIVE IntOf(_)
\* int() of a non-empty sequence of digit characters
IntOf(s) ==
    IF Len(s) = 0 THEN 0
    ELSE 10 * IntOf(SubSeq(s, 1, Len(s) - 1)) + DigitVal(s[Len(s)])

AllDigits(s) == Len(s) > 0 /\ \A i \in 1..Len(s) : IsDigit(s[i])

RECURSIVE Without(_, _)
\* str.replace(c, ""): the sequence with every occurrence of c removed
Without(s, c) ==
    IF Len(s) = 0 THEN <<>>
    ELSE IF s[1] = c THEN Without(Tail(s), c)
         ELSE <<s[1]>> \o Without(Tail(s), c)

\* ------------------------------------------------------- the movie table
\* The detail record the primary catalog returns for tmdb_id, in one of four
\* shapes: 1 is complete; 2 carries the secondary id only under external_ids
\* and leaves the optional fields out; 3 has no secondary id at all; 4 has
\* no title.
DetailVariants == {1, 2, 3, 4}

Details(tmdb_id, v) ==
    [ id             |-> tmdb_id,
      imdb_id        |-> IF v \in {1, 4} THEN Some(<<"tt", tmdb_id>>) ELSE NULL,
      ext_imdb_id    |-> IF v = 2 THEN Some(<<"tt", tmdb_id>>) ELSE NULL,
      title          |-> IF v = 4 THEN NULL ELSE Some(<<"title", tmdb_id, v>>),
      original_title |-> IF v = 1 THEN Some(<<"original", tmdb_id>>) ELSE NULL,
      release_date   |-> IF v = 2 THEN NULL
                         ELSE Some(<<"2", "0", "2", Digits[v + 1], "-", "0", "5", "-", "0", "1">>),
      overview       |-> IF v = 1 THEN Some(<<"overview", tmdb_id>>) ELSE NULL,
      runtime        |-> IF v = 1 THEN Some(90 + tmdb_id) ELSE NULL,
      popularity     |-> Some(v),
      vote_average   |-> Some(5 + v),
      vote_count     |-> Some(50 * v),
      poster_path    |-> IF v = 3 THEN NULL ELSE Some(<<"/poster", tmdb_id, v>>) ]

\* (details.get("release_date") or "0000")[:4], stored in an INTEGER column
YearOf(release_date) ==
    LET text == IF Falsy(release_date) THEN <<"0", "0", "0", "0">> ELSE Get(release_date)
    IN  IntOf(SubSeq(text, 1, Min(4, Len(text))))

\* details.get("imdb_id") or details.get("external_ids", {}).get("imdb_id")
ImdbIdOf(details) ==
    IF ~Falsy(details.imdb_id) THEN details.imdb_id ELSE details.ext_imdb_id

\* The rowid SQLite gives a row inserted without one: largest rowid + 1
NewRowid(rows) ==
    IF rows = {} THEN 1
    ELSE (CHOOSE m \in {r.id : r \in rows} : \A r \in rows : r.id <= m) + 1

\* The row INSERT OR REPLACE writes for a detail record: the eleven listed
\* columns from the record, every other column at its default (NULL).
MovieRow(details, rowid) ==
    [ id                |-> rowid,
      tmdb_id           |-> details.id,
      imdb_id           |-> ImdbIdOf(details),
      title             |-> details.title,
      original_title    |-> details.original_title,
      year              |-> YearOf(details.release_date),
      overview          |-> details.overview,
      runtime           |-> details.runtime,
      popularity        |-> details.popularity,
      tmdb_vote_avg     |-> details.vote_average,
      tmdb_vote_count   |-> details.vote_count,
      poster_path       |-> details.poster_path,
      imdb_rating       |-> NULL,
      imdb_votes        |-> NULL,
      omdb_raw_json     |-> NULL,
      omdb_last_updated |-> NULL ]

\* upsert_movie as an UPDATE that keeps a column's previous value where the
\* new record has none
upsert_movie_keep_previous(rows, details) ==
    LET old == {r \in rows : r.tmdb_id = details.id}
        new == MovieRow(details, NewRowid(rows))
        keep(field) == IF new[field] = NULL /\ old # {}
                       THEN (CHOOSE r \in old : TRUE)[field] ELSE new[field]
    IN  {r \in rows : r.tmdb_id # details.id} \cup
        { [new EXCEPT !.imdb_id = keep("imdb_id"), !.title = keep("title"),
                      !.original_title = keep("original_title"),
                      !.overview = keep("overview"), !.runtime = keep("runtime"),
                      !.poster_path = keep("poster_path")] }

\* upsert_movie carrying the rating columns of the replaced row over to the
\* new one
upsert_movie_keep_enrichment(rows, details) ==
    LET old == {r \in rows : r.tmdb_id = details.id}
        new == MovieRow(details, NewRowid(rows))
        keep(field) == IF old # {} THEN (CHOOSE r \in old : TRUE)[field] ELSE new[field]
    IN  {r \in rows : r.tmdb_id # details.id} \cup
        { [new EXCEPT !.imdb_rating = keep("imdb_rating"),
                      !.imdb_votes = keep("imdb_votes"),
                      !.omdb_raw_json = keep("omdb_raw_json"),
                      !.omdb_last_updated = keep("omdb_last_updated")] }

\* upsert_movie on success: the row with the same tmdb_id (UNIQUE) is deleted
\* and the new row inserted under a fresh rowid.
upsert_movie(rows, details) ==
    {r \in rows : r.tmdb_id # details.id} \cup {MovieRow(details, NewRowid(rows))}

\* ------------------------------------------------- secondary rating source
\* Successful lookup records (Response == "True") of the rating source.
OmdbRecords ==
    { [ imdbID     |-> Some(<<"tt", 0>>),
        imdbRating |-> Some(<<"7", ".", "5">>),
        imdbVotes  |-> Some(<<"1", ",", "2", "3", "4">>) ],
      [ imdbID     |-> NULL,
        imdbRating |-> Some(<<"N", "/", "A">>),
        imdbVotes  |-> NULL ] }

\* Reasons of an unsuccessful lookup: a non-200 status, the record's Error
\* text, or the default when the record has none.
IdFailureReasons == {"http_error_500", "Movie not found!", "omdb_error_imdb_id"}
TitleFailureReasons == {"http_error_500", "Movie not found!", "omdb_error_title_year"}

NotAvailable == <<"N", "/", "A">>

\* float(raw) for text of the form d+ or d+.d+, as a pair (integer part,
\* fraction digits); any other text raises ValueError
IsFloatText(s) ==
    \/ AllDigits(s)
    \/ \E k \in 2..(Len(s) - 1) :
          /\ s[k] = "."
          /\ AllDigits(SubSeq(s, 1, k - 1))
          /\ AllDigits(SubSeq(s, k + 1, Len(s)))

FloatOf(s) ==
    IF AllDigits(s) THEN <<IntOf(s), <<>>>>
    ELSE LET k == CHOOSE j \in 2..(Len(s) - 1) : s[j] = "."
         IN  <<IntOf(SubSeq(s, 1, k - 1)), SubSeq(s, k + 1, Len(s))>>

parse_imdb_rating(raw) ==
    IF Falsy(raw) \/ Get(raw) = NotAvailable THEN NULL
    ELSE IF IsFloatText(Get(raw)) THEN Some(FloatOf(Get(raw)))
    ELSE NULL

parse_imdb_votes(raw) ==
    IF Falsy(raw) \/ Get(raw) = NotAvailable THEN NULL
    ELSE IF AllDigits(Without(Get(raw), ",")) THEN Some(IntOf(Without(Get(raw), ",")))
    ELSE NULL

\* update_movie_with_omdb without the omdb_last_updated column in its SET list
update_movie_with_omdb_no_timestamp(rows, movie_id, omdb_data, time) ==
    { IF r.id # movie_id THEN r
      ELSE [r EXCEPT
              !.imdb_id = IF omdb_data.imdbID # NULL THEN omdb_data.imdbID ELSE @,
              !.imdb_rating = parse_imdb_rating(omdb_data.imdbRating),
              !.imdb_votes = parse_imdb_votes(omdb_data.imdbVotes),
              !.omdb_raw_json = Some(<<"json", omdb_data>>)]
      : r \in rows }

\* update_movie_with_omdb: the UPDATE ... WHERE id = movie_id
update_movie_with_omdb(rows, movie_id, omdb_data, time) ==
    { IF r.id # movie_id THEN r
      ELSE [r EXCEPT
              !.imdb_id = IF omdb_data.imdbID # NULL THEN omdb_data.imdbID ELSE @,
              !.imdb_rating = parse_imdb_rating(omdb_data.imdbRating),
              !.imdb_votes = parse_imdb_votes(omdb_data.imdbVotes),
              !.omdb_raw_json = Some(<<"json", omdb_data>>),
              !.omdb_last_updated = Some(time)]
      : r \in rows }

\* --------------------------------------------------------- SELECT queries
RECURSIVE OrderById(_, _)
\* the first limit rows of S by ascending id
OrderById(S, limit) ==
    IF S = {} \/ limit <= 0 THEN <<>>
    ELSE LET m == CHOOSE r \in S : \A q \in S : r.id <= q.id
         IN  <<m>> \o OrderById(S \ {m}, limit - 1)

RECURSIVE OrderByLastUpdated(_, _)
\* the first limit rows of S by ascending omdb_last_updated (timestamps of
\* distinct rows differ: every update reads a later clock)
OrderByLastUpdated(S, limit) ==
    IF S = {} \/ limit <= 0 THEN <<>>
    ELSE LET m == CHOOSE r \in S :
                    \A q \in S : Get(r.omdb_last_updated) <= Get(q.omdb_last_updated)
         IN  <<m>> \o OrderByLastUpdated(S \ {m}, limit - 1)

\* SELECT id, title, year, imdb_id
BatchRow(r) == [id |-> r.id, title |-> r.title, year |-> r.year, imdb_id |-> r.imdb_id]

MapRows(s) == [i \in 1..Len(s) |-> BatchRow(s[i])]

\* Phase 1: WHERE omdb_raw_json IS NULL ORDER BY id ASC LIMIT ?
SelectMissing(rows, limit) ==
    MapRows(OrderById({r \in rows : r.omdb_raw_json = NULL}, limit))

\* Phase 2 selecting in the order of Phase 1: ORDER BY id ASC
SelectRefresh_by_id(rows, limit) ==
    MapRows(OrderById({r \in rows : r.omdb_raw_json # NULL}, limit))

\* Phase 2: WHERE omdb_raw_json IS NOT NULL ORDER BY omdb_last_updated ASC LIMIT ?
SelectRefresh(rows, limit) ==
    MapRows(OrderByLastUpdated({r \in rows : r.omdb_raw_json # NULL}, limit))

\* ------------------------------------------------------- step3: enrichment
\* Module-level configuration of step3_fetch_omdb.py.  The source fixes the
\* budgets at 950 and 700; the model reads them from cfg, which Init draws
\* from every split with 1 <= missing <= total <= MaxBudget.
TOTAL_DAILY_BUDGET == cfg.total
BUDGET_FOR_MISSING_DATA == cfg.missing
OMDB_API_KEY == cfg.api_key

BudgetConfigs ==
    { c \in [total : 1..MaxBudget, missing : 1..MaxBudget, api_key : BOOLEAN] :
        c.missing <= c.total }

NoLast == [movie_id |-> 0, data |-> NULL, path |-> <<"none">>]
NoSelection == [done |-> FALSE, budget |-> 0, count |-> 0, enriched |-> 0]

\* update_omdb_ratings dropping the count process_movie_batch returns
ReturnFromBatch_drops_count(calls_used) ==
    /\ total_calls_made' = total_calls_made
    /\ IF e_phase = 1
       THEN /\ e_pc' = "phase2"
            /\ phase1_started' = lookups_started
            /\ e_result' = e_result
       ELSE /\ e_pc' = "done"
            /\ e_result' = TRUE
            /\ phase1_started' = phase1_started

\* process_movie_batch returns calls_used to update_omdb_ratings, which adds it
\* to total_calls_made and goes on to Phase 2 or to the end of the run.
ReturnFromBatch(calls_used) ==
    /\ total_calls_made' = total_calls_made + calls_used
    /\ IF e_phase = 1
       THEN /\ e_pc' = "phase2"
            /\ phase1_started' = lookups_started
            /\ e_result' = e_result
       ELSE /\ e_pc' = "done"
            /\ e_result' = TRUE
            /\ phase1_started' = phase1_started

\* process_movie_batch keeping only the records found by imdb_id: a record of
\* the title lookup is counted and dropped
AfterFetch_id_only(omdb_data, path) ==
    LET row == e_rows[e_i]
        kept == IF path = <<"by_imdb_id">> THEN omdb_data ELSE NULL
    IN
    /\ e_last' = [movie_id |-> row.id, data |-> omdb_data, path |-> path]
    /\ processed_in_batch' = processed_in_batch + 1
    /\ IF kept = NULL
       THEN /\ e_pc' = "batch"
            /\ e_i' = e_i + 1
            /\ UNCHANGED <<movie, now, e_result, total_calls_made, phase1_started>>
       ELSE \E db_ok \in BOOLEAN :
              IF db_ok
              THEN /\ movie' = update_movie_with_omdb(movie, row.id, Get(kept), now)
                   /\ now' = now + 1
                   /\ e_pc' = "batch"
                   /\ e_i' = e_i + 1
                   /\ UNCHANGED <<e_result, total_calls_made, phase1_started>>
              ELSE /\ e_pc' = "done"
                   /\ e_result' = FALSE
                   /\ UNCHANGED <<movie, now, e_i, total_calls_made, phase1_started>>

\* process_movie_batch counting only the lookups that returned a record
AfterFetch_counts_records_only(omdb_data, path) ==
    LET row == e_rows[e_i] IN
    /\ e_last' = [movie_id |-> row.id, data |-> omdb_data, path |-> path]
    /\ processed_in_batch' = IF omdb_data = NULL THEN processed_in_batch
                             ELSE processed_in_batch + 1
    /\ IF omdb_data = NULL
       THEN /\ e_pc' = "batch"
            /\ e_i' = e_i + 1
            /\ UNCHANGED <<movie, now, e_result, total_calls_made, phase1_started>>
       ELSE \E db_ok \in BOOLEAN :
              IF db_ok
              THEN /\ movie' = update_movie_with_omdb(movie, row.id, Get(omdb_data), now)
                   /\ now' = now + 1
                   /\ e_pc' = "batch"
                   /\ e_i' = e_i + 1
                   /\ UNCHANGED <<e_result, total_calls_made, phase1_started>>
              ELSE /\ e_pc' = "done"
                   /\ e_result' = FALSE
                   /\ UNCHANGED <<movie, now, e_i, total_calls_made, phase1_started>>

\* The rest of one loop iteration of process_movie_batch once fetch_omdb_data
\* has returned (omdb_data, path): the attempt is counted, a record is
\* persisted, and the loop goes on with the next row.  update_movie_with_omdb
\* is outside the try block: a store error there ends the run with False.
AfterFetch(omdb_data, path) ==
    LET row == e_rows[e_i] IN
    /\ e_last' = [movie_id |-> row.id, data |-> omdb_data, path |-> path]
    /\ processed_in_batch' = processed_in_batch + 1
    /\ IF omdb_data = NULL
       THEN /\ e_pc' = "batch"
            /\ e_i' = e_i + 1
            /\ UNCHANGED <<movie, now, e_result, total_calls_made, phase1_started>>
       ELSE \E db_ok \in BOOLEAN :
              IF db_ok
              THEN /\ movie' = update_movie_with_omdb(movie, row.id, Get(omdb_data), now)
                   /\ now' = now + 1
                   /\ e_pc' = "batch"
                   /\ e_i' = e_i + 1
                   /\ UNCHANGED <<e_result, total_calls_made, phase1_started>>
              ELSE /\ e_pc' = "done"
                   /\ e_result' = FALSE
                   /\ UNCHANGED <<movie, now, e_i, total_calls_made, phase1_started>>

\* update_omdb_ratings up to the Phase 1 SELECT and the call of
\* process_movie_batch for the rows it returned.
StartEnrich ==
    /\ e_pc = "idle"
    /\ lookups_started' = 0
    /\ requests_sent' = 0
    /\ total_calls_made' = 0
    /\ processed_in_batch' = 0
    /\ e_i' = 1
    /\ e_last' = NoLast
    /\ refresh_selected' = NoSelection
    /\ phase1_started' = 0
    /\ e_phase' = 1
    /\ budget_limit' = BUDGET_FOR_MISSING_DATA
    /\ IF ~OMDB_API_KEY
       THEN /\ e_pc' = "done"
            /\ e_result' = FALSE
            /\ e_rows' = <<>>
       ELSE LET missing_rows == SelectMissing(movie, BUDGET_FOR_MISSING_DATA) IN
            /\ e_rows' = missing_rows
            /\ e_result' = e_result
            /\ e_pc' = IF Len(missing_rows) > 0 THEN "batch" ELSE "phase2"
    /\ UNCHANGED <<storeVars, cfg, e_reason>>
    /\ UNCHANGED notEnrich

\* process_movie_batch: the head of the loop over rows
BatchHead ==
    /\ e_pc = "batch"
    /\ \/ \* the rows are exhausted: return processed_in_batch
          /\ e_i > Len(e_rows)
          /\ ReturnFromBatch(processed_in_batch)
          /\ UNCHANGED <<lookups_started, e_reason>>
       \/ \* budget reached: return processed_in_batch
          /\ e_i <= Len(e_rows)
          /\ total_calls_made + processed_in_batch >= budget_limit
          /\ ReturnFromBatch(processed_in_batch)
          /\ UNCHANGED <<lookups_started, e_reason>>
       \/ \* fetch_omdb_data is called for the row
          /\ e_i <= Len(e_rows)
          /\ total_calls_made + processed_in_batch < budget_limit
          /\ lookups_started' = lookups_started + 1
          /\ e_pc' = "by_id"
          /\ e_reason' = "none"
          /\ UNCHANGED <<total_calls_made, e_result, phase1_started>>
    /\ UNCHANGED <<storeVars, cfg, e_phase, e_rows, e_i, processed_in_batch,
                   budget_limit, e_last, requests_sent, refresh_selected>>
    /\ UNCHANGED notEnrich

\* fetch_from_omdb_by_imdb_id for the current row, and what follows when it
\* returns a record or raises
LookupById ==
    LET row == e_rows[e_i] IN
    /\ e_pc = "by_id"
    /\ \/ \* no imdb_id: no request, fall back to the title lookup
          /\ Falsy(row.imdb_id)
          /\ e_reason' = "no_imdb_id"
          /\ e_pc' = "by_title"
          /\ UNCHANGED <<movie, now, e_i, total_calls_made, processed_in_batch,
                         e_last, e_result, requests_sent, phase1_started>>
       \/ \* session.get raises (transport error, timeout, invalid JSON)
          /\ ~Falsy(row.imdb_id)
          /\ requests_sent' = requests_sent + 1
          /\ ReturnFromBatch(processed_in_batch)
          /\ UNCHANGED <<movie, now, e_i, processed_in_batch, e_last, e_reason>>
       \/ \* a non-200 status or Response != "True"
          /\ ~Falsy(row.imdb_id)
          /\ requests_sent' = requests_sent + 1
          /\ \E reason \in IdFailureReasons : e_reason' = reason
          /\ e_pc' = "by_title"
          /\ UNCHANGED <<movie, now, e_i, total_calls_made, processed_in_batch,
                         e_last, e_result, phase1_started>>
       \/ \* Response == "True"
          /\ ~Falsy(row.imdb_id)
          /\ requests_sent' = requests_sent + 1
          /\ \E data \in OmdbRecords : AfterFetch(Some(data), <<"by_imdb_id">>)
          /\ UNCHANGED e_reason
    /\ UNCHANGED <<movie_availability, cfg, e_phase, e_rows, budget_limit,
                   lookups_started, refresh_selected>>
    /\ UNCHANGED notEnrich

\* fetch_from_omdb_by_title_year for the current row, and what follows
LookupByTitle ==
    LET row == e_rows[e_i] IN
    /\ e_pc = "by_title"
    /\ \/ \* no title: no request, both paths failed
          /\ Falsy(row.title)
          /\ AfterFetch(NULL, <<"failed", e_reason, "no_title">>)
          /\ UNCHANGED requests_sent
       \/ \* session.get raises
          /\ ~Falsy(row.title)
          /\ requests_sent' = requests_sent + 1
          /\ ReturnFromBatch(processed_in_batch)
          /\ UNCHANGED <<movie, now, e_i, processed_in_batch, e_last>>
       \/ \* a non-200 status or Response != "True": both paths failed
          /\ ~Falsy(row.title)
          /\ requests_sent' = requests_sent + 1
          /\ \E reason2 \in TitleFailureReasons :
                AfterFetch(NULL, <<"failed", e_reason, reason2>>)
       \/ \* Response == "True"
          /\ ~Falsy(row.title)
          /\ requests_sent' = requests_sent + 1
          /\ \E data \in OmdbRecords : AfterFetch(Some(data), <<"by_title_year">>)
    /\ UNCHANGED <<movie_availability, cfg, e_phase, e_rows, budget_limit,
                   e_reason, lookups_started, refresh_selected>>
    /\ UNCHANGED notEnrich

\* update_omdb_ratings between the two phases: the refresh budget, the
\* Phase 2 SELECT and the call of process_movie_batch for its rows
StartPhase2 ==
    LET refresh_budget == TOTAL_DAILY_BUDGET - total_calls_made
        refresh_rows == SelectRefresh(movie, refresh_budget)
    IN
    /\ e_pc = "phase2"
    /\ \/ \* refresh_budget > 0 and the SELECT returned rows
          /\ refresh_budget > 0
          /\ Len(refresh_rows) > 0
          /\ e_rows' = refresh_rows
          /\ e_i' = 1
          /\ processed_in_batch' = 0
          /\ budget_limit' = TOTAL_DAILY_BUDGET
          /\ e_phase' = 2
          /\ e_pc' = "batch"
          /\ refresh_selected' =
                [done |-> TRUE, budget |-> refresh_budget, count |-> Len(refresh_rows),
                 enriched |-> Cardinality({r \in movie : r.omdb_raw_json # NULL})]
          /\ UNCHANGED e_result
       \/ \* refresh_budget > 0 and no row to refresh
          /\ refresh_budget > 0
          /\ Len(refresh_rows) = 0
          /\ e_pc' = "done"
          /\ e_result' = TRUE
          /\ refresh_selected' =
                [done |-> TRUE, budget |-> refresh_budget, count |-> 0,
                 enriched |-> Cardinality({r \in movie : r.omdb_raw_json # NULL})]
          /\ UNCHANGED <<e_rows, e_i, processed_in_batch, budget_limit, e_phase>>
       \/ \* the budget was exhausted in Phase 1: Phase 2 is skipped
          /\ refresh_budget <= 0
          /\ e_pc' = "done"
          /\ e_result' = TRUE
          /\ UNCHANGED <<e_rows, e_i, processed_in_batch, budget_limit, e_phase,
                         refresh_selected>>
    /\ UNCHANGED <<storeVars, cfg, total_calls_made, e_reason, e_last,
                   lookups_started, requests_sent, phase1_started>>
    /\ UNCHANGED notEnrich

\* ---------------------------------------------------- step1: discovery
\* for attempt in range(3), in fetch_discover_page and fetch_movie_details
MAX_ATTEMPTS == 3
\* Default of max_movies_per_range
MAX_MOVIES_PER_RANGE == 10000

\* DATE_RANGES, most recent first ("today" is datetime.now() as a date)
DATE_RANGES ==
    << <<"2020-01-01", "today">>,
       <<"2010-01-01", "2019-12-31">>,
       <<"2000-01-01", "2009-12-31">>,
       <<"1990-01-01", "1999-12-31">>,
       <<"1980-01-01", "1989-12-31">>,
       <<"1970-01-01", "1979-12-31">>,
       <<"1960-01-01", "1969-12-31">>,
       <<"1900-01-01", "1959-12-31">> >>

\* monthly_catalog_update resuming towards the newer ranges: the ranges from
\* the latest one down to the boundary's range
RangesToProcess_newer_ranges(start_from_date) ==
    IF Falsy(start_from_date) THEN Some(<<DATE_RANGES[1]>>)
    ELSE LET matches == {i \in 1..Len(DATE_RANGES) : DATE_RANGES[i][1] = Get(start_from_date)}
         IN  IF matches = {} THEN NULL
             ELSE LET start_index == CHOOSE i \in matches : \A j \in matches : i <= j
                  IN  Some(SubSeq(DATE_RANGES, 1, start_index))

\* monthly_catalog_update: the ranges to process for start_from_date, or NULL
\* when the date is the start of no range (StopIteration)
RangesToProcess(start_from_date) ==
    IF Falsy(start_from_date) THEN Some(<<DATE_RANGES[1]>>)
    ELSE LET matches == {i \in 1..Len(DATE_RANGES) : DATE_RANGES[i][1] = Get(start_from_date)}
         IN  IF matches = {} THEN NULL
             ELSE LET start_index == CHOOSE i \in matches : \A j \in matches : i <= j
                  IN  Some(SubSeq(DATE_RANGES, start_index, Len(DATE_RANGES)))

\* Arguments of monthly_catalog_update explored by the model
DiscoveryInputs ==
    { [start_from_date |-> NULL, max_movies_per_range |-> MAX_MOVIES_PER_RANGE],
      [start_from_date |-> NULL, max_movies_per_range |-> 2],
      [start_from_date |-> Some("1900-01-01"), max_movies_per_range |-> 1],
      [start_from_date |-> Some("1960-01-01"), max_movies_per_range |-> 1],
      [start_from_date |-> Some("2021-06-01"), max_movies_per_range |-> 2] }

\* One entry of a discovery page
Item(id, dated) ==
    [id |-> id,
     release_date |-> IF dated THEN Some(<<"2", "0", "2", "1", "-", "0", "5", "-", "0", "1">>)
                      ELSE NULL]

\* The result lists a discovery page may carry
ResultLists ==
    { <<>>,
      <<Item(1, TRUE), Item(2, FALSE)>>,
      <<Item(1, TRUE), Item(2, TRUE), Item(3, TRUE)>> }

\* total_pages of a discovery response: absent, or a count
TotalPagesValues == {NULL} \cup {Some(k) : k \in 1..(PageCeiling + 1)}

\* Detail records the catalog returns during discovery
DiscoveryVariants == {1, 2}

PageResponses == {"ok", "rate_limit", "http_error", "transport_error"}
DetailResponses == {"ok", "rate_limit", "not_found", "http_error", "transport_error"}

\* fetch_discover_page: what the retry loop does with the response to its
\* request number attempt (0-based).  After the last iteration a 429 leaves
\* the loop and the function returns None.
PageOutcome(response, attempt) ==
    CASE response = "ok" -> "data"
      [] response = "rate_limit" -> IF attempt + 1 < MAX_ATTEMPTS THEN "retry" ELSE "none"
      [] response = "transport_error" -> IF attempt < 2 THEN "retry" ELSE "raise"
      [] OTHER -> "raise"

\* fetch_movie_details treating a 429 as it treats a 404
DetailOutcome_no_retry(response, attempt) ==
    CASE response = "ok" -> "record"
      [] response = "rate_limit" -> "none"
      [] response = "not_found" -> "none"
      [] response = "transport_error" -> IF attempt < 2 THEN "retry" ELSE "raise"
      [] OTHER -> "raise"

\* fetch_movie_details raising when the last attempt ends in a 429
DetailOutcome_raise_when_exhausted(response, attempt) ==
    CASE response = "ok" -> "record"
      [] response = "rate_limit" -> IF attempt + 1 < MAX_ATTEMPTS THEN "retry" ELSE "raise"
      [] response = "not_found" -> "none"
      [] response = "transport_error" -> IF attempt < 2 THEN "retry" ELSE "raise"
      [] OTHER -> "raise"

\* fetch_movie_details retrying a 404 like a transport error
DetailOutcome_retry_not_found(response, attempt) ==
    CASE response = "ok" -> "record"
      [] response = "rate_limit" -> IF attempt + 1 < MAX_ATTEMPTS THEN "retry" ELSE "none"
      [] response = "not_found" -> IF attempt < 2 THEN "retry" ELSE "none"
      [] response = "transport_error" -> IF attempt < 2 THEN "retry" ELSE "raise"
      [] OTHER -> "raise"

\* fetch_movie_details: the same for a detail request; a 404 returns None at
\* once, and so does the end of the loop after a last 429.
DetailOutcome(response, attempt) ==
    CASE response = "ok" -> "record"
      [] response = "rate_limit" -> IF attempt + 1 < MAX_ATTEMPTS THEN "retry" ELSE "none"
      [] response = "not_found" -> "none"
      [] response = "transport_error" -> IF attempt < 2 THEN "retry" ELSE "raise"
      [] OTHER -> "raise"

\* the cap check off by one
CapReached_after(processed, cap) == processed > cap

\* movies_processed_in_range >= max_movies_per_range, checked before each
\* page and before each entry of a page
CapReached(processed, cap) == processed >= cap

\* min(data.get("total_pages", 500), 500)
TotalPagesOf(reported) ==
    Min(IF reported = NULL THEN PageCeiling ELSE Get(reported), PageCeiling)

NoRequest == [kind |-> "none", range |-> 0, target |-> 0, attempt |-> 0, response |-> "none"]
NoUpsert == [done |-> FALSE, ok |-> FALSE, details |-> Details(0, 1), replaced |-> {}]

DiscoveryIdle ==
    /\ d_pc = "idle"
    /\ d_ranges = <<>>
    /\ d_range = 1
    /\ d_page = 1
    /\ d_total_pages = PageCeiling
    /\ movies_processed_in_range = 0
    /\ d_results = <<>>
    /\ d_item = 1
    /\ d_attempt = 0
    /\ d_result = FALSE
    /\ d_last_req = NoRequest
    /\ d_last_upsert = NoUpsert
    /\ d_persisted = 0
    /\ d_page1 = NULL
    /\ d_max_page = 0
    /\ d_clean = TRUE

\* fetch_catalog_by_date_range is entered for the range at index range
EnterRange(range) ==
    /\ d_range' = range
    /\ d_page' = 1
    /\ d_total_pages' = PageCeiling
    /\ movies_processed_in_range' = 0
    /\ d_results' = <<>>
    /\ d_item' = 1
    /\ d_attempt' = 0
    /\ d_persisted' = 0
    /\ d_page1' = NULL
    /\ d_max_page' = 0
    /\ d_clean' = TRUE
    /\ d_pc' = "page"

\* monthly_catalog_update returning True as soon as one range has returned
LeaveRange_returns_after_first_range ==
    /\ d_pc' = "done"
    /\ d_result' = TRUE
    /\ UNCHANGED <<d_range, d_page, d_total_pages, movies_processed_in_range,
                   d_results, d_item, d_attempt, d_persisted, d_page1, d_max_page, d_clean>>

\* fetch_catalog_by_date_range returns: monthly_catalog_update goes on with
\* the next range, or returns True after the last one
LeaveRange ==
    IF d_range < Len(d_ranges)
    THEN /\ EnterRange(d_range + 1)
         /\ UNCHANGED d_result
    ELSE /\ d_pc' = "done"
         /\ d_result' = TRUE
         /\ UNCHANGED <<d_range, d_page, d_total_pages, movies_processed_in_range,
                        d_results, d_item, d_attempt, d_persisted, d_page1, d_max_page, d_clean>>

\* A propagated failure caught per range: the run goes on with the next range
AbortRun_next_range == LeaveRange

\* A propagated failure answered by scanning the same range again
AbortRun_restart_range ==
    /\ EnterRange(d_range)
    /\ UNCHANGED d_result

\* An exception leaves fetch_catalog_by_date_range and is caught by
\* monthly_catalog_update, which returns False
AbortRun ==
    /\ d_pc' = "done"
    /\ d_result' = FALSE
    /\ UNCHANGED <<d_range, d_page, d_total_pages, movies_processed_in_range,
                   d_results, d_item, d_attempt, d_persisted, d_page1, d_max_page, d_clean>>

\* monthly_catalog_update up to the first call of fetch_catalog_by_date_range
StartDiscovery ==
    /\ d_pc = "idle"
    /\ LET ranges == RangesToProcess(d_input.start_from_date) IN
       IF ranges = NULL
       THEN /\ d_ranges' = <<>>
            /\ AbortRun
       ELSE /\ d_ranges' = Get(ranges)
            /\ EnterRange(1)
            /\ UNCHANGED d_result
    /\ d_last_req' = NoRequest
    /\ d_last_upsert' = NoUpsert
    /\ UNCHANGED <<storeVars, d_input>>
    /\ UNCHANGED notDiscovery

\* The head of the page loop: for page in range(1, total_pages + 1), whose
\* range is evaluated once, on entry, with total_pages = 500
PageHead ==
    /\ d_pc = "page"
    /\ \/ \* the loop is over
          /\ d_page > PageCeiling
          /\ LeaveRange
       \/ \* the cap is reached: return
          /\ d_page <= PageCeiling
          /\ CapReached(movies_processed_in_range, d_input.max_movies_per_range)
          /\ LeaveRange
       \/ \* fetch_discover_page is called
          /\ d_page <= PageCeiling
          /\ ~CapReached(movies_processed_in_range, d_input.max_movies_per_range)
          /\ d_pc' = "page_req"
          /\ d_attempt' = 0
          /\ d_max_page' = d_page
          /\ UNCHANGED <<d_range, d_page, d_total_pages, movies_processed_in_range,
                         d_results, d_item, d_persisted, d_page1, d_clean, d_result>>
    /\ UNCHANGED <<storeVars, d_input, d_ranges, d_last_req, d_last_upsert>>
    /\ UNCHANGED notDiscovery

\* One request of fetch_discover_page and what the code does with its
\* response, up to the next request
PageRequest ==
    /\ d_pc = "page_req"
    /\ \E response \in PageResponses :
         LET outcome == PageOutcome(response, d_attempt) IN
         /\ d_last_req' = [kind |-> "page", range |-> d_range, target |-> d_page,
                           attempt |-> d_attempt + 1, response |-> response]
         /\ \/ \* the same page is requested again
               /\ outcome = "retry"
               /\ d_attempt' = d_attempt + 1
               /\ UNCHANGED <<d_pc, d_range, d_page, d_total_pages, d_results, d_item,
                              movies_processed_in_range, d_persisted, d_page1, d_max_page, d_clean,
                              d_result>>
            \/ \* an exception propagates, or None is returned and data.get
               \* raises AttributeError
               /\ outcome \in {"raise", "none"}
               /\ AbortRun
            \/ \* the page has no results: break
               /\ outcome = "data"
               /\ LeaveRange
            \/ \* the page has results: the loop over them starts
               /\ outcome = "data"
               /\ \E results \in ResultLists \ {<<>>} :
                  \E reported \in (IF d_page = 1 THEN TotalPagesValues ELSE {NULL}) :
                     /\ d_results' = results
                     /\ d_total_pages' =
                           IF d_page = 1 THEN TotalPagesOf(reported) ELSE d_total_pages
                     /\ d_page1' = IF d_page = 1 THEN Some(results) ELSE d_page1
               /\ d_item' = 1
               /\ d_pc' = "item"
               /\ UNCHANGED <<d_range, d_page, d_attempt, movies_processed_in_range,
                              d_persisted, d_max_page, d_clean, d_result>>
    /\ UNCHANGED <<storeVars, d_input, d_ranges, d_last_upsert>>
    /\ UNCHANGED notDiscovery

\* The head of the loop over the results of a page
ItemHead ==
    /\ d_pc = "item"
    /\ \/ \* the results are exhausted, or the cap is reached (break): the
          \* page loop goes on with the next page
          /\ \/ d_item > Len(d_results)
             \/ CapReached(movies_processed_in_range, d_input.max_movies_per_range)
          /\ d_page' = d_page + 1
          /\ d_pc' = "page"
          /\ UNCHANGED <<d_item, d_attempt>>
       \/ \* the entry has no release date: continue
          /\ d_item <= Len(d_results)
          /\ ~CapReached(movies_processed_in_range, d_input.max_movies_per_range)
          /\ Falsy(d_results[d_item].release_date)
          /\ d_item' = d_item + 1
          /\ UNCHANGED <<d_pc, d_page, d_attempt>>
       \/ \* fetch_movie_details is called
          /\ d_item <= Len(d_results)
          /\ ~CapReached(movies_processed_in_range, d_input.max_movies_per_range)
          /\ ~Falsy(d_results[d_item].release_date)
          /\ d_pc' = "detail_req"
          /\ d_attempt' = 0
          /\ UNCHANGED <<d_item, d_page>>
    /\ UNCHANGED <<storeVars, d_input, d_ranges, d_range, d_total_pages, d_results,
                   movies_processed_in_range, d_persisted, d_page1, d_max_page, d_clean, d_result,
                   d_last_req, d_last_upsert>>
    /\ UNCHANGED notDiscovery

\* One request of fetch_movie_details and what the code does with its
\* response, up to the next request
DetailRequest ==
    LET tmdb_id == d_results[d_item].id IN
    /\ d_pc = "detail_req"
    /\ \E response \in DetailResponses :
         LET outcome == DetailOutcome(response, d_attempt) IN
         /\ d_last_req' = [kind |-> "details", range |-> d_range, target |-> tmdb_id,
                           attempt |-> d_attempt + 1, response |-> response]
         /\ \/ \* the same identifier is requested again
               /\ outcome = "retry"
               /\ d_attempt' = d_attempt + 1
               /\ UNCHANGED <<movie, d_pc, d_item, movies_processed_in_range,
                              d_persisted, d_clean, d_result, d_last_upsert>>
            \/ \* an exception propagates to monthly_catalog_update
               /\ outcome = "raise"
               /\ d_pc' = "done"
               /\ d_result' = FALSE
               /\ UNCHANGED <<movie, d_item, d_attempt, movies_processed_in_range,
                              d_persisted, d_clean, d_last_upsert>>
            \/ \* None is returned: the entry is skipped
               /\ outcome = "none"
               /\ d_item' = d_item + 1
               /\ d_pc' = "item"
               /\ d_clean' = FALSE
               /\ UNCHANGED <<movie, d_attempt, movies_processed_in_range, d_persisted,
                              d_result, d_last_upsert>>
            \/ \* a record is returned and upserted
               /\ outcome = "record"
               /\ \E v \in DiscoveryVariants :
                    LET details == Details(tmdb_id, v) IN
                    /\ movie' = upsert_movie(movie, details)
                    /\ d_last_upsert' =
                          [done |-> TRUE, ok |-> TRUE, details |-> details,
                           replaced |-> {r \in movie : r.tmdb_id = tmdb_id}]
               /\ d_persisted' = d_persisted + 1
               /\ movies_processed_in_range' = movies_processed_in_range + 1
               /\ d_item' = d_item + 1
               /\ d_pc' = "item"
               /\ UNCHANGED <<d_attempt, d_clean, d_result>>
            \/ \* a record is returned and the upsert fails in the store: the
               \* error is logged and the entry still counts as processed
               /\ outcome = "record"
               /\ \E v \in DiscoveryVariants :
                    d_last_upsert' =
                       [done |-> TRUE, ok |-> FALSE, details |-> Details(tmdb_id, v),
                        replaced |-> {}]
               /\ movies_processed_in_range' = movies_processed_in_range + 1
               /\ d_item' = d_item + 1
               /\ d_pc' = "item"
               /\ d_clean' = FALSE
               /\ UNCHANGED <<movie, d_attempt, d_persisted, d_result>>
    /\ UNCHANGED <<movie_availability, now, d_input, d_ranges, d_range, d_page,
                   d_total_pages, d_results, d_page1, d_max_page>>
    /\ UNCHANGED notDiscovery

\* ------------------------------------------------ stores a run starts from
\* A store of n rows as discovery and earlier enrichment runs leave it: row i
\* was upserted from a detail record and, when rated, updated from a rating
\* record at a time of its own.
RowKinds == {"missing", "missing_noid", "missing_notitle", "rated"}

VariantOf(kind) ==
    CASE kind = "missing_noid" -> 3
      [] kind = "missing_notitle" -> 4
      [] OTHER -> 1

StoreOf(n, kind, newest_first) ==
    { LET base == MovieRow(Details(i, VariantOf(kind[i])), i)
          rec == CHOOSE d \in OmdbRecords : d.imdbID # NULL
          time == IF newest_first THEN i ELSE n + 1 - i
      IN  IF kind[i] = "rated"
          THEN CHOOSE r \in update_movie_with_omdb({base}, i, rec, time) : TRUE
          ELSE base
      : i \in 1..n }

\* ------------------------------------------------- step2: availability
COUNTRY == "US"

\* The order in which fetch_watch_providers reads the monetization types
MonetizationTypes == <<"flatrate", "ads", "free", "rent", "buy">>

Provider(id, priority) ==
    [provider_id |-> id, provider_name |-> <<"provider", id>>, display_priority |-> priority]

\* Bodies of successful watch/providers responses: results maps a country
\* code to the provider lists of the monetization types it has.
ProviderResponses ==
    { [results |-> <<>>],
      [results |-> [US |-> [flatrate |-> <<Provider(8, Some(1))>>]]],
      [results |-> [US |-> [rent |-> <<Provider(2, NULL)>>,
                            flatrate |-> <<Provider(8, Some(1)), Provider(9, Some(2))>>,
                            link |-> <<>>],
                    GB |-> [flatrate |-> <<Provider(7, Some(1))>>]]],
      [results |-> [GB |-> [flatrate |-> <<Provider(7, Some(1))>>]]] }

RECURSIVE ProvidersFrom(_, _)
\* the loop of fetch_watch_providers over MonetizationTypes, from type k on
ProvidersFrom(country_info, k) ==
    IF k > Len(MonetizationTypes) THEN <<>>
    ELSE LET monetization_type == MonetizationTypes[k]
             here == IF monetization_type \notin DOMAIN country_info THEN <<>>
                     ELSE [j \in 1..Len(country_info[monetization_type]) |->
                            LET provider == country_info[monetization_type][j] IN
                            [provider_id       |-> provider.provider_id,
                             provider_name     |-> provider.provider_name,
                             display_priority  |-> provider.display_priority,
                             monetization_type |-> monetization_type]]
         IN  here \o ProvidersFrom(country_info, k + 1)

\* fetch_watch_providers once the response has arrived
fetch_watch_providers(data) ==
    LET results == data.results
        country_info == IF COUNTRY \in DOMAIN results THEN results[COUNTRY] ELSE <<>>
    IN  ProvidersFrom(country_info, 1)

RECURSIVE InsertProviders(_, _, _, _)
\* the INSERT loop of store_providers
InsertProviders(avail, movie_id, providers, time) ==
    IF Len(providers) = 0 THEN avail
    ELSE LET p == Head(providers)
             row == [id                |-> NewRowid(avail),
                     movie_id          |-> movie_id,
                     country_code      |-> COUNTRY,
                     provider_id       |-> p.provider_id,
                     provider_name     |-> p.provider_name,
                     display_priority  |-> p.display_priority,
                     monetization_type |-> p.monetization_type,
                     last_checked_at   |-> time]
         IN  InsertProviders(avail \cup {row}, movie_id, Tail(providers), time)

\* store_providers without its DELETE
store_providers_no_delete(avail, movie_id, providers, time) ==
    InsertProviders(avail, movie_id, providers, time)

\* store_providers, committed: DELETE the movie's rows, then INSERT one row
\* per provider
store_providers(avail, movie_id, providers, time) ==
    InsertProviders({a \in avail : a.movie_id # movie_id}, movie_id, providers, time)

\* the loop iteration with the movie's rows deleted before the fetch
refresh_movie_delete_first(avail, movie_id, fetched, time) ==
    IF fetched = NULL THEN {a \in avail : a.movie_id # movie_id}
    ELSE store_providers(avail, movie_id, Get(fetched), time)

\* One iteration of the loop of update_providers_data on the availability
\* table: fetched is NULL when fetch_watch_providers raised (store_providers
\* is then never called) and the provider list otherwise.
refresh_movie(avail, movie_id, fetched, time) ==
    IF fetched = NULL THEN avail
    ELSE store_providers(avail, movie_id, Get(fetched), time)

RECURSIVE OrderByTmdbId(_)
OrderByTmdbId(S) ==
    IF S = {} THEN <<>>
    ELSE LET m == CHOOSE r \in S : \A q \in S : r.tmdb_id <= q.tmdb_id
         IN  <<m>> \o OrderByTmdbId(S \ {m})

IdAndTmdbId(s) == [i \in 1..Len(s) |-> [id |-> s[i].id, tmdb_id |-> s[i].tmdb_id]]

\* SELECT id, tmdb_id FROM movie has no ORDER BY: SQLite scans the table (by
\* rowid) or the covering index of tmdb_id (by tmdb_id).
ScanMovies(rows) ==
    { IdAndTmdbId(OrderById(rows, Cardinality(rows))), IdAndTmdbId(OrderByTmdbId(rows)) }

RowsOf(avail, movie_id) == {a \in avail : a.movie_id = movie_id}

NoEntity == [movie_id |-> 0, outcome |-> "none", response |-> [results |-> <<>>],
             before |-> {}]

RefreshIdle ==
    /\ r_pc = "idle"
    /\ r_movies = <<>>
    /\ r_i = 1
    /\ r_result = FALSE
    /\ r_last = NoEntity

\* update_providers_data up to the loop: the table is created if missing and
\* the movie rows are read
StartRefresh ==
    /\ r_pc = "idle"
    /\ r_movies' \in ScanMovies(movie)
    /\ r_i' = 1
    /\ r_pc' = "loop"
    /\ r_last' = NoEntity
    /\ UNCHANGED <<storeVars, r_result>>
    /\ UNCHANGED notRefresh

\* update_providers_data catching the failure of fetch_watch_providers inside
\* the loop: the entity is skipped and the loop goes on with the next row
RefreshMovie_skips_failed_fetch ==
    /\ r_pc = "loop"
    /\ \/ /\ r_i > Len(r_movies)
          /\ r_pc' = "done"
          /\ r_result' = TRUE
          /\ UNCHANGED <<storeVars, r_i, r_last>>
       \/ /\ r_i <= Len(r_movies)
          /\ LET m == r_movies[r_i] IN
             /\ movie_availability' = refresh_movie(movie_availability, m.id, NULL, now)
             /\ r_last' = [movie_id |-> m.id, outcome |-> "fetch_failed",
                           response |-> [results |-> <<>>],
                           before |-> RowsOf(movie_availability, m.id)]
          /\ r_i' = r_i + 1
          /\ UNCHANGED <<movie, now, r_pc, r_result>>
       \/ /\ r_i <= Len(r_movies)
          /\ \E data \in ProviderResponses :
               LET m == r_movies[r_i] IN
               /\ movie_availability' =
                     refresh_movie(movie_availability, m.id,
                                   Some(fetch_watch_providers(data)), now)
               /\ r_last' = [movie_id |-> m.id, outcome |-> "stored", response |-> data,
                             before |-> RowsOf(movie_availability, m.id)]
          /\ now' = now + 1
          /\ r_i' = r_i + 1
          /\ UNCHANGED <<movie, r_pc, r_result>>
       \/ /\ r_i <= Len(r_movies)
          /\ \E data \in ProviderResponses :
               LET m == r_movies[r_i] IN
               r_last' = [movie_id |-> m.id, outcome |-> "store_failed", response |-> data,
                          before |-> RowsOf(movie_availability, m.id)]
          /\ r_pc' = "done"
          /\ r_result' = FALSE
          /\ UNCHANGED <<storeVars, r_i>>
    /\ UNCHANGED r_movies
    /\ UNCHANGED notRefresh

\* One step of the loop of update_providers_data: the next row's providers
\* are fetched and stored, or the loop ends.  (Every row of movie has a
\* tmdb_id, so the skip branch is never taken.)
RefreshMovie ==
    /\ r_pc = "loop"
    /\ \/ \* the loop is over: return True
          /\ r_i > Len(r_movies)
          /\ r_pc' = "done"
          /\ r_result' = TRUE
          /\ UNCHANGED <<storeVars, r_i, r_last>>
       \/ \* fetch_watch_providers raises: return False
          /\ r_i <= Len(r_movies)
          /\ LET m == r_movies[r_i] IN
             /\ movie_availability' = refresh_movie(movie_availability, m.id, NULL, now)
             /\ r_last' = [movie_id |-> m.id, outcome |-> "fetch_failed",
                           response |-> [results |-> <<>>],
                           before |-> RowsOf(movie_availability, m.id)]
          /\ r_pc' = "done"
          /\ r_result' = FALSE
          /\ UNCHANGED <<movie, now, r_i>>
       \/ \* the providers are fetched and stored
          /\ r_i <= Len(r_movies)
          /\ \E data \in ProviderResponses :
               LET m == r_movies[r_i] IN
               /\ movie_availability' =
                     refresh_movie(movie_availability, m.id,
                                   Some(fetch_watch_providers(data)), now)
               /\ r_last' = [movie_id |-> m.id, outcome |-> "stored", response |-> data,
                             before |-> RowsOf(movie_availability, m.id)]
          /\ now' = now + 1
          /\ r_i' = r_i + 1
          /\ UNCHANGED <<movie, r_pc, r_result>>
       \/ \* the providers are fetched; store_providers raises before its
          \* commit and the transaction is rolled back: return False
          /\ r_i <= Len(r_movies)
          /\ \E data \in ProviderResponses :
               LET m == r_movies[r_i] IN
               r_last' = [movie_id |-> m.id, outcome |-> "store_failed", response |-> data,
                          before |-> RowsOf(movie_availability, m.id)]
          /\ r_pc' = "done"
          /\ r_result' = FALSE
          /\ UNCHANGED <<storeVars, r_i>>
    /\ UNCHANGED r_movies
    /\ UNCHANGED notRefresh

EnrichIdle ==
    /\ cfg = [total |-> 1, missing |-> 1, api_key |-> TRUE]
    /\ e_pc = "idle"
    /\ e_phase = 1
    /\ e_rows = <<>>
    /\ e_i = 1
    /\ total_calls_made = 0
    /\ processed_in_batch = 0
    /\ budget_limit = 0
    /\ e_reason = "none"
    /\ e_last = NoLast
    /\ e_result = FALSE
    /\ lookups_started = 0
    /\ requests_sent = 0
    /\ phase1_started = 0
    /\ refresh_selected = NoSelection

RECURSIVE RefreshedStore(_, _, _)
\* The availability table after earlier refresh runs stored the richest
\* response for the movies of had, at times from time on
RefreshedStore(avail, had, time) ==
    IF had = {} THEN avail
    ELSE LET id == CHOOSE i \in had : \A j \in had : i <= j
             data == CHOOSE d \in ProviderResponses :
                        "US" \in DOMAIN d.results /\ "GB" \in DOMAIN d.results
         IN  RefreshedStore(store_providers(avail, id, fetch_watch_providers(data), time),
                            had \ {id}, time + 1)

InitRefresh ==
    /\ \E n \in 0..MaxMovies : \E had \in SUBSET (1..n) :
          /\ movie = StoreOf(n, [i \in 1..n |-> "missing"], TRUE)
          /\ movie_availability = RefreshedStore({}, had, 1)
          /\ now = n + 1
    /\ EnrichIdle
    /\ RefreshIdle
    /\ DiscoveryIdle
    /\ d_input = [start_from_date |-> NULL, max_movies_per_range |-> MAX_MOVIES_PER_RANGE]

NextRefresh ==
    \/ StartRefresh
    \/ RefreshMovie

\* One availability refresh run from any store
SpecRefresh == InitRefresh /\ [][NextRefresh]_vars


InitEnrich ==
    /\ \E n \in 0..MaxMovies : \E kind \in [1..n -> RowKinds] : \E newest_first \in BOOLEAN :
          /\ movie = StoreOf(n, kind, newest_first)
          /\ now = n + 1
    /\ movie_availability = {}
    /\ cfg \in BudgetConfigs
    /\ e_pc = "idle"
    /\ e_phase = 1
    /\ e_rows = <<>>
    /\ e_i = 1
    /\ total_calls_made = 0
    /\ processed_in_batch = 0
    /\ budget_limit = 0
    /\ e_reason = "none"
    /\ e_last = NoLast
    /\ e_result = FALSE
    /\ lookups_started = 0
    /\ requests_sent = 0
    /\ phase1_started = 0
    /\ refresh_selected = NoSelection
    /\ RefreshIdle
    /\ DiscoveryIdle
    /\ d_input = [start_from_date |-> NULL, max_movies_per_range |-> MAX_MOVIES_PER_RANGE]

NextEnrich ==
    \/ StartEnrich
    \/ BatchHead
    \/ LookupById
    \/ LookupByTitle
    \/ StartPhase2

\* One enrichment run from any store
SpecEnrich == InitEnrich /\ [][NextEnrich]_vars

InitDiscovery ==
    /\ movie = {}
    /\ movie_availability = {}
    /\ now = 1
    /\ d_input \in DiscoveryInputs
    /\ DiscoveryIdle
    /\ EnrichIdle
    /\ RefreshIdle

NextDiscovery ==
    \/ StartDiscovery
    \/ PageHead
    \/ PageRequest
    \/ ItemHead
    \/ DetailRequest

\* One discovery run into an empty store
SpecDiscovery == InitDiscovery /\ [][NextDiscovery]_vars

\* Largest number of rows that already carry a rating payload in the store
\* of the budget scenario.
MaxRefreshCandidates == 3

\* The budget scenario: total budget 5, sub-budget 3, four rows without a
\* rating payload followed by up to MaxRefreshCandidates rated rows.
InitEnrichScenario ==
    /\ \E k \in 0..MaxRefreshCandidates :
          /\ movie = StoreOf(4 + k,
                             [i \in 1..(4 + k) |-> IF i <= 4 THEN "missing" ELSE "rated"],
                             TRUE)
          /\ now = 4 + k + 1
    /\ movie_availability = {}
    /\ cfg = [total |-> 5, missing |-> 3, api_key |-> TRUE]
    /\ e_pc = "idle"
    /\ e_phase = 1
    /\ e_rows = <<>>
    /\ e_i = 1
    /\ total_calls_made = 0
    /\ processed_in_batch = 0
    /\ budget_limit = 0
    /\ e_reason = "none"
    /\ e_last = NoLast
    /\ e_result = FALSE
    /\ lookups_started = 0
    /\ requests_sent = 0
    /\ phase1_started = 0
    /\ refresh_selected = NoSelection
    /\ RefreshIdle
    /\ DiscoveryIdle
    /\ d_input = [start_from_date |-> NULL, max_movies_per_range |-> MAX_MOVIES_PER_RANGE]

\* One enrichment run of the budget scenario
SpecEnrichScenario == InitEnrichScenario /\ [][NextEnrich]_vars

\* ------------------------------------------------ the writes to the movie table
\* Largest rowid and latest clock reading of the write sequences explored.
MaxRowid == 3
MaxClock == 3

\* A discovery run upserts the detail record of a catalog entry
UpsertMovie ==
    /\ NewRowid(movie) <= MaxRowid
    /\ \E tmdb_id \in 1..MaxMovies : \E v \in DiscoveryVariants :
          movie' = upsert_movie(movie, Details(tmdb_id, v))
    /\ UNCHANGED <<movie_availability, now, d_input>>
    /\ UNCHANGED <<enrichVars, refreshVars>>
    /\ UNCHANGED <<d_pc, d_ranges, d_range, d_page, d_total_pages,
                   movies_processed_in_range, d_results, d_item, d_attempt, d_result,
                   d_last_req, d_last_upsert, d_persisted, d_page1, d_max_page, d_clean>>

\* An enrichment run updates a row from a rating record
UpdateMovieWithOmdb ==
    /\ now <= MaxClock
    /\ \E r \in movie : \E omdb_data \in OmdbRecords :
          movie' = update_movie_with_omdb(movie, r.id, omdb_data, now)
    /\ now' = now + 1
    /\ UNCHANGED <<movie_availability, d_input>>
    /\ UNCHANGED <<enrichVars, refreshVars>>
    /\ UNCHANGED <<d_pc, d_ranges, d_range, d_page, d_total_pages,
                   movies_processed_in_range, d_results, d_item, d_attempt, d_result,
                   d_last_req, d_last_upsert, d_persisted, d_page1, d_max_page, d_clean>>

InitStore ==
    /\ movie = {}
    /\ movie_availability = {}
    /\ now = 1
    /\ d_input = [start_from_date |-> NULL, max_movies_per_range |-> MAX_MOVIES_PER_RANGE]
    /\ DiscoveryIdle
    /\ EnrichIdle
    /\ RefreshIdle

NextStore ==
    \/ UpsertMovie
    \/ UpdateMovieWithOmdb

\* Every sequence of discovery upserts and enrichment updates on one store
SpecStore == InitStore /\ [][NextStore]_vars

\* A discovery run resumed from 1960-01-01 (two ranges) with cap 2
InitDiscoveryRanges ==
    /\ movie = {}
    /\ movie_availability = {}
    /\ now = 1
    /\ d_input = [start_from_date |-> Some("1960-01-01"), max_movies_per_range |-> 2]
    /\ DiscoveryIdle
    /\ EnrichIdle
    /\ RefreshIdle

SpecDiscoveryRanges == InitDiscoveryRanges /\ [][NextDiscovery]_vars

\* ---------------------------------------------------- one run of any job
\* One job runs at a time (the scheduler starts them hours apart); the two
\* jobs that do not run are "off" and none of their steps is enabled.
DiscoveryOff ==
    /\ d_pc = "off"
    /\ d_input = [start_from_date |-> NULL, max_movies_per_range |-> MAX_MOVIES_PER_RANGE]
    /\ d_ranges = <<>>
    /\ d_range = 1
    /\ d_page = 1
    /\ d_total_pages = PageCeiling
    /\ movies_processed_in_range = 0
    /\ d_results = <<>>
    /\ d_item = 1
    /\ d_attempt = 0
    /\ d_result = FALSE
    /\ d_last_req = NoRequest
    /\ d_last_upsert = NoUpsert
    /\ d_persisted = 0
    /\ d_page1 = NULL
    /\ d_max_page = 0
    /\ d_clean = TRUE

RefreshOff ==
    /\ r_pc = "off"
    /\ r_movies = <<>>
    /\ r_i = 1
    /\ r_result = FALSE
    /\ r_last = NoEntity

EnrichOff ==
    /\ cfg = [total |-> 1, missing |-> 1, api_key |-> TRUE]
    /\ e_pc = "off"
    /\ e_phase = 1
    /\ e_rows = <<>>
    /\ e_i = 1
    /\ total_calls_made = 0
    /\ processed_in_batch = 0
    /\ budget_limit = 0
    /\ e_reason = "none"
    /\ e_last = NoLast
    /\ e_result = FALSE
    /\ lookups_started = 0
    /\ requests_sent = 0
    /\ phase1_started = 0
    /\ refresh_selected = NoSelection

\* Arguments of the discovery runs of SpecJobs: the resumed runs with cap 1
\* and the run with an unmatched start date
JobDiscoveryInputs ==
    {i \in DiscoveryInputs : i.start_from_date # NULL}

InitJobDiscovery ==
    /\ movie = {}
    /\ movie_availability = {}
    /\ now = 1
    /\ d_input \in JobDiscoveryInputs
    /\ DiscoveryIdle
    /\ RefreshOff
    /\ EnrichOff

InitJobRefresh ==
    /\ \E n \in 0..MaxMovies : \E had \in SUBSET (1..n) :
          /\ movie = StoreOf(n, [i \in 1..n |-> "missing"], TRUE)
          /\ movie_availability = RefreshedStore({}, had, 1)
          /\ now = n + 1
    /\ RefreshIdle
    /\ DiscoveryOff
    /\ EnrichOff

\* Stores of the enrichment runs of SpecJobs: MaxMovies rows, the first
\* without a rating payload, the second of any kind, the others rated
InitJobEnrich ==
    /\ \E kind \in [1..MaxMovies -> RowKinds] :
          /\ kind[1] = "missing"
          /\ \A i \in 3..MaxMovies : kind[i] = "rated"
          /\ movie = StoreOf(MaxMovies, kind, TRUE)
          /\ now = MaxMovies + 1
    /\ movie_availability = {}
    /\ cfg \in {c \in BudgetConfigs : c.api_key => c.total = MaxBudget}
    /\ e_pc = "idle"
    /\ e_phase = 1
    /\ e_rows = <<>>
    /\ e_i = 1
    /\ total_calls_made = 0
    /\ processed_in_batch = 0
    /\ budget_limit = 0
    /\ e_reason = "none"
    /\ e_last = NoLast
    /\ e_result = FALSE
    /\ lookups_started = 0
    /\ requests_sent = 0
    /\ phase1_started = 0
    /\ refresh_selected = NoSelection
    /\ DiscoveryOff
    /\ RefreshOff

InitJobs ==
    \/ InitJobDiscovery
    \/ InitJobRefresh
    \/ InitJobEnrich

NextJobs ==
    \/ StartDiscovery
    \/ PageHead
    \/ PageRequest
    \/ ItemHead
    \/ DetailRequest
    \/ StartRefresh
    \/ RefreshMovie
    \/ StartEnrich
    \/ BatchHead
    \/ LookupById
    \/ LookupByTitle
    \/ StartPhase2

\* One run of one job; the job that runs keeps taking its next step (every
\* request gets a response and every sleep ends).
SpecJobs == InitJobs /\ [][NextJobs]_vars /\ WF_vars(NextJobs)

\* ------------------------------------------- discovery and refresh together
\* The store an earlier discovery run and an earlier refresh run left: n
\* movie rows, and the availability rows of some of them.  The scheduled
\* monthly discovery run (latest range only) and a refresh run then take
\* their steps in any order: each job opens its own connection and commits
\* statement by statement, and the scheduler runs the jobs in threads.
\* Largest number of movie rows in the store the two jobs start from.
MaxPipelineMovies == 2

InitPipeline ==
    /\ \E n \in 1..MaxPipelineMovies : \E had \in SUBSET (1..n) :
          /\ movie = StoreOf(n, [i \in 1..n |-> "missing"], TRUE)
          /\ movie_availability = RefreshedStore({}, had, 1)
          /\ now = n + 1
    /\ d_input = [start_from_date |-> NULL, max_movies_per_range |-> 1]
    /\ DiscoveryIdle
    /\ RefreshIdle
    /\ EnrichOff

NextPipeline ==
    \/ StartDiscovery
    \/ PageHead
    \/ PageRequest
    \/ ItemHead
    \/ DetailRequest
    \/ StartRefresh
    \/ RefreshMovie

SpecPipeline == InitPipeline /\ [][NextPipeline]_vars

\* ------------------------------------------------------------------ claims
\* C1: in every enrichment run the number of lookup attempts of Phase 1 and
\* Phase 2 together, counting every row for which a lookup is started whatever
\* its outcome, never exceeds the total daily budget.
C1_AttemptsWithinBudget == lookups_started <= TOTAL_DAILY_BUDGET

\* C2: in every enrichment run the number of requests sent to the rating
\* source (id lookups plus title+year lookups) never exceeds the total daily
\* budget, and the total of calls reported at the end of the run is the number
\* of requests sent.
C2_RequestsWithinBudget ==
    /\ requests_sent <= TOTAL_DAILY_BUDGET
    /\ (e_pc = "done" /\ e_result) => total_calls_made = requests_sent

\* C10: Phase 2 selects (total budget - attempts Phase 1 actually made),
\* clamped at zero, refresh candidates (all of them when the store holds
\* fewer).
C10_RefreshCountFromActualAttempts ==
    refresh_selected.done =>
        refresh_selected.count =
            Min(Max(TOTAL_DAILY_BUDGET - phase1_started, 0), refresh_selected.enriched)

\* C3: after an availability replace of entity E the snapshot set stored for
\* E holds exactly the providers the fetch returned for the country: each
\* fetched provider is there, nothing of E's prior set survives; and replacing
\* twice with the same fetched list gives the same set as replacing once.
Snapshot(a) ==
    [provider_id |-> a.provider_id, provider_name |-> a.provider_name,
     display_priority |-> a.display_priority, monetization_type |-> a.monetization_type]

FetchedFor(data, country) ==
    IF country \notin DOMAIN data.results THEN {}
    ELSE LET info == data.results[country] IN
         UNION { { [provider_id       |-> info[t][j].provider_id,
                    provider_name     |-> info[t][j].provider_name,
                    display_priority  |-> info[t][j].display_priority,
                    monetization_type |-> t] : j \in 1..Len(info[t]) }
                 : t \in DOMAIN info \cap {"flatrate", "ads", "free", "rent", "buy"} }

C3_ReplaceStoresExactlyFetched ==
    /\ r_last.outcome = "stored" =>
          LET rows == RowsOf(movie_availability, r_last.movie_id) IN
          /\ {Snapshot(a) : a \in rows} = FetchedFor(r_last.response, "US")
          /\ Cardinality(rows) = Cardinality(FetchedFor(r_last.response, "US"))
          /\ \A a \in rows : a.country_code = "US"
          /\ rows \cap r_last.before = {}
    /\ \A m \in movie : \A data \in ProviderResponses :
          LET providers == fetch_watch_providers(data)
              once == store_providers(movie_availability, m.id, providers, now)
              twice == store_providers(once, m.id, providers, now + 1)
          IN  /\ {Snapshot(a) : a \in RowsOf(twice, m.id)} = {Snapshot(a) : a \in RowsOf(once, m.id)}
              /\ Cardinality(RowsOf(twice, m.id)) = Cardinality(RowsOf(once, m.id))

C3_Witness ==
    /\ r_last.outcome = "stored"
    /\ r_last.before # {}
    /\ {Snapshot(a) : a \in r_last.before} # FetchedFor(r_last.response, "US")
    /\ FetchedFor(r_last.response, "US") # {}

\* C4: when the provider fetch for entity E fails, E's stored snapshot set is
\* exactly what it was before the call (no delete, no insert).
C4_FetchFailureLeavesSetUntouched ==
    r_last.outcome = "fetch_failed" =>
        RowsOf(movie_availability, r_last.movie_id) = r_last.before

C4_Witness ==
    /\ r_last.outcome = "fetch_failed"
    /\ r_last.before # {}
    /\ r_pc = "done"

\* C5: after an entity is upserted again under the same primary id the store
\* holds exactly one row with that id, and its catalog fields are those of the
\* second payload, none kept from the first.
CatalogFieldsFrom(row, details) ==
    /\ row.tmdb_id = details.id
    /\ row.imdb_id = (IF details.imdb_id # NULL THEN details.imdb_id ELSE details.ext_imdb_id)
    /\ row.title = details.title
    /\ row.original_title = details.original_title
    /\ row.year = YearOf(details.release_date)
    /\ row.overview = details.overview
    /\ row.runtime = details.runtime
    /\ row.popularity = details.popularity
    /\ row.tmdb_vote_avg = details.vote_average
    /\ row.tmdb_vote_count = details.vote_count
    /\ row.poster_path = details.poster_path

C5_UpsertKeepsOnlyLatestPayload ==
    /\ \A r1 \in movie : \A r2 \in movie : r1.tmdb_id = r2.tmdb_id => r1 = r2
    /\ d_last_upsert.ok =>
          \E r \in movie : CatalogFieldsFrom(r, d_last_upsert.details)

C5_Witness ==
    /\ d_last_upsert.ok
    /\ \E old \in d_last_upsert.replaced : ~CatalogFieldsFrom(old, d_last_upsert.details)

\* C6: while fewer than 3 requests were made for a page or an identifier, a
\* rate-limit response is followed by a request for the same page or the same
\* identifier: the job is waiting to send it, and the next request sent is it.
C6_RateLimitRetriesSameRequest ==
    /\ [] ( (d_last_req.response = "rate_limit" /\ d_last_req.attempt < 3) =>
              /\ d_range = d_last_req.range
              /\ d_attempt = d_last_req.attempt
              /\ IF d_last_req.kind = "page"
                 THEN d_pc = "page_req" /\ d_page = d_last_req.target
                 ELSE d_pc = "detail_req" /\ d_results[d_item].id = d_last_req.target )
    /\ [][ (d_last_req.response = "rate_limit" /\ d_last_req.attempt < 3
              /\ d_last_req' # d_last_req) =>
              /\ d_last_req'.kind = d_last_req.kind
              /\ d_last_req'.range = d_last_req.range
              /\ d_last_req'.target = d_last_req.target
              /\ d_last_req'.attempt = d_last_req.attempt + 1 ]_vars

C6_Witness ==
    /\ d_last_req.response = "rate_limit"
    /\ d_last_req.attempt = 2
    /\ d_last_req.kind = "details"
    /\ d_page = 2

C8_PagesWithinReportedTotal ==
    (d_last_req.kind = "page" /\ d_last_req.range = d_range) =>
        d_last_req.target <= d_total_pages

\* C9: within one range no more rows are persisted than the entity cap, and
\* once the cap is reached no request at all is sent for that range; with cap
\* 2 and a page 1 of three dated results whose details resolve and are stored,
\* exactly 2 rows are persisted and page 2 is never requested.
ThreeDated == <<Item(1, TRUE), Item(2, TRUE), Item(3, TRUE)>>

C9_Scenario ==
    /\ d_input.max_movies_per_range = 2
    /\ d_page1 = Some(ThreeDated)
    /\ d_clean
    /\ d_pc = "done"
    /\ d_result

C9_EntityCapBoundsRange ==
    /\ [] (d_persisted <= d_input.max_movies_per_range)
    /\ [][ movies_processed_in_range >= d_input.max_movies_per_range =>
              d_last_req' = d_last_req ]_vars
    /\ [] (C9_Scenario =>
              /\ d_persisted = 2
              /\ Cardinality(movie) = 2
              /\ d_max_page = 1)

C9_Witness == C9_Scenario

\* C11: Phase 1 attempts at most the fill sub-budget of never-enriched rows,
\* and Phase 2 attempts at most the budget that remains after the attempts of
\* Phase 1; with total budget 5, sub-budget 3 and 4 rows lacking rating data,
\* a Phase 1 that ran to its end attempted exactly 3 rows, and Phase 2 never
\* attempts more than 2, however many refresh candidates exist.
Phase2Attempts == IF e_phase = 2 THEN lookups_started - phase1_started ELSE 0

Phase1Attempts == lookups_started - Phase2Attempts

C11_PhaseBudgets ==
    /\ Phase1Attempts <= BUDGET_FOR_MISSING_DATA
    /\ Phase2Attempts <= Max(TOTAL_DAILY_BUDGET - Phase1Attempts, 0)
    /\ (TOTAL_DAILY_BUDGET = 5 /\ BUDGET_FOR_MISSING_DATA = 3) =>
          /\ Phase2Attempts <= 2
          /\ (e_phase = 2 /\ e_pc # "done" /\ total_calls_made = phase1_started) =>
                Phase1Attempts = 3

\* C12: for each row the lookup by imdb_id comes first and the title(+year)
\* lookup is reached only when the id lookup produced no record (no id, or an
\* unsuccessful id lookup); when the fallback then returns a record, the path
\* returned is by_title_year and the row is updated from that record.
UpdatedFrom(r, record, time) ==
    /\ r.imdb_rating = parse_imdb_rating(record.imdbRating)
    /\ r.imdb_votes = parse_imdb_votes(record.imdbVotes)
    /\ r.omdb_raw_json = Some(<<"json", record>>)
    /\ r.omdb_last_updated = Some(time)

C12_IdFirstThenFallback ==
    /\ [] (e_pc = "by_id" => e_reason = "none")
    /\ [] (e_pc = "by_title" => e_reason \in ({"no_imdb_id"} \cup IdFailureReasons))
    /\ [][ (e_pc = "by_id" /\ e_pc' = "by_title") => movie' = movie /\ e_last' = e_last ]_vars
    /\ [][ (e_pc = "by_title" /\ processed_in_batch' = processed_in_batch + 1
              /\ e_last'.data # NULL) =>
              /\ e_last'.path = <<"by_title_year">>
              /\ e_last'.movie_id = e_rows[e_i].id
              /\ \/ \E r \in movie' :
                       r.id = e_rows[e_i].id /\ UpdatedFrom(r, Get(e_last'.data), now)
                 \/ e_pc' = "done" /\ ~e_result' /\ movie' = movie ]_vars

C12_Witness ==
    /\ e_last.path = <<"by_title_year">>
    /\ e_reason = "Movie not found!"
    /\ e_pc = "batch"
    /\ \E r \in movie : r.id = e_last.movie_id /\ UpdatedFrom(r, Get(e_last.data), now - 1)

\* C13: after any sequence of discovery upserts and enrichment updates, each
\* row's omdb_last_updated is null if and only if its omdb_raw_json is null.
C13_TimestampIffPayload ==
    \A r \in movie : (r.omdb_last_updated = NULL) <=> (r.omdb_raw_json = NULL)

\* one entry upserted, enriched, then upserted again: both fields are null again
C13_Witness ==
    /\ now > 1
    /\ Cardinality(movie) = 1
    /\ \E r \in movie : r.id >= 2 /\ r.omdb_raw_json = NULL /\ r.omdb_last_updated = NULL

\* C14: when the failure of a page fetch or of a detail fetch propagates
\* during a discovery run, the run ends there with False: no later range is
\* entered, nothing more is requested or written, and the rows persisted
\* before the failure are all still in the store.
FailurePropagated ==
    \/ d_last_req.response = "http_error"
    \/ d_last_req.response = "transport_error" /\ d_last_req.attempt = 3
    \/ d_last_req.kind = "page" /\ d_last_req.response = "rate_limit"
          /\ d_last_req.attempt = 3

C14_FailureEndsRunKeepsRows ==
    /\ [] (FailurePropagated =>
              d_pc = "done" /\ ~d_result /\ d_range = d_last_req.range)
    /\ [][ (d_pc \in {"page_req", "detail_req"} /\ d_pc' = "done" /\ ~d_result') =>
              movie' = movie /\ d_range' = d_range /\ d_persisted' = d_persisted ]_vars
    /\ [][ d_pc # "done" ]_vars

C14_Witness ==
    /\ FailurePropagated
    /\ d_pc = "done"
    /\ Len(d_ranges) > 1
    /\ d_range < Len(d_ranges)
    /\ d_persisted > 0
    /\ Cardinality(movie) > 0

\* C15: a not-found response to a detail request is not retried, persists no
\* row, does not count toward the cap of the range, and discovery goes on with
\* the next entry of the page; neither the range nor the run fails.
C15_NotFoundIsSkipped ==
    /\ [][ (d_pc = "detail_req" /\ d_last_req'.response = "not_found") =>
              /\ movie' = movie
              /\ d_persisted' = d_persisted
              /\ movies_processed_in_range' = movies_processed_in_range
              /\ d_pc' = "item"
              /\ d_item' = d_item + 1
              /\ d_page' = d_page
              /\ d_range' = d_range
              /\ d_result' = d_result ]_vars
    /\ [] ((d_last_req.response = "not_found" /\ d_pc = "detail_req") => d_attempt = 0)
    /\ [] ((d_last_req.response = "not_found" /\ d_pc = "done") => d_result)

C15_Witness ==
    /\ d_last_req.response = "not_found"
    /\ d_last_req.attempt = 1
    /\ d_pc = "detail_req"
    /\ d_results[d_item].id # d_last_req.target
    /\ d_page = 1
    /\ movie = {}

\* C16: a transport error raised during the lookup of one row ends the batch
\* of the current phase at that row, keeps the attempts the phase has counted,
\* and leaves the other phase to run: after such an error in Phase 1, Phase 2
\* runs with budget total - attempts counted in Phase 1.
LookupRaises ==
    /\ e_pc \in {"by_id", "by_title"}
    /\ requests_sent' = requests_sent + 1
    /\ processed_in_batch' = processed_in_batch
    /\ e_pc' # "by_title"

C16_TransportErrorEndsBatchOnly ==
    /\ [][ LookupRaises =>
              /\ movie' = movie
              /\ total_calls_made' = total_calls_made + processed_in_batch
              /\ lookups_started' = lookups_started
              /\ IF e_phase = 1
                 THEN e_pc' = "phase2" /\ e_result' = e_result
                 ELSE e_pc' = "done" /\ e_result' ]_vars
    /\ [][ (e_pc = "phase2" /\ e_pc' # "phase2"
              /\ TOTAL_DAILY_BUDGET - total_calls_made > 0) =>
              /\ refresh_selected'.done
              /\ refresh_selected'.budget = TOTAL_DAILY_BUDGET - total_calls_made
              /\ refresh_selected'.count =
                    Min(refresh_selected'.budget, refresh_selected'.enriched)
              /\ (refresh_selected'.count > 0) =>
                    (e_pc' = "batch" /\ e_phase' = 2 /\ Len(e_rows') = refresh_selected'.count) ]_vars

\* Phase 1 counted one attempt, its second lookup raised, and Phase 2 runs
\* with total - 1
C16_Witness ==
    /\ e_phase = 2
    /\ e_pc = "by_id"
    /\ phase1_started = 2
    /\ refresh_selected.done
    /\ refresh_selected.budget = TOTAL_DAILY_BUDGET - 1
    /\ refresh_selected.count > 0

\* C17: when the id lookup and the title(+year) lookup both fail for a row,
\* the lookup returns no record and one reason made of both failure reasons,
\* no stored field of any row changes, the attempt is counted as one unit,
\* and the batch goes on with the next row.
BothLookupsFail ==
    /\ e_pc = "by_title"
    /\ e_pc' = "batch"
    /\ e_last'.data = NULL

C17_BothFailuresCountedNotStored ==
    [][ BothLookupsFail =>
           /\ e_reason \in ({"no_imdb_id"} \cup IdFailureReasons)
           /\ \E reason2 \in ({"no_title"} \cup TitleFailureReasons) :
                 e_last'.path = <<"failed", e_reason, reason2>>
           /\ e_last'.movie_id = e_rows[e_i].id
           /\ movie' = movie
           /\ processed_in_batch' = processed_in_batch + 1
           /\ e_i' = e_i + 1
           /\ e_rows' = e_rows
           /\ e_result' = e_result ]_vars

C17_Witness ==
    /\ e_last.data = NULL
    /\ e_last.path = <<"failed", "Movie not found!", "http_error_500">>
    /\ processed_in_batch >= 1
    /\ e_pc = "by_id"
    /\ e_rows[e_i].id # e_last.movie_id
    /\ \E r \in movie : r.id = e_last.movie_id /\ r.omdb_raw_json = NULL

\* C19: every run of a job ends and returns True or False, whatever mix of
\* success, not-found, rate-limit and transport-error responses the sources
\* give: no retry loop and no page loop goes on forever.
RunReturned ==
    \/ d_pc = "done" /\ d_result \in BOOLEAN
    \/ r_pc = "done" /\ r_result \in BOOLEAN
    \/ e_pc = "done" /\ e_result \in BOOLEAN

C19_EveryRunReturns == <>RunReturned

\* a discovery run that was rate limited three times on a detail request of
\* the last page of its page loop, and returned True
C19_Witness ==
    /\ d_pc = "done"
    /\ d_result
    /\ d_max_page = PageCeiling
    /\ d_last_req.response = "rate_limit"
    /\ d_last_req.attempt = 3


\* C18: a write that fails at the store layer is skipped for that record only:
\* the upsert of a discovered entity, the replace of an entity's availability
\* set and the rating update of an enriched entity each leave the store as it
\* was, and the job's loop goes on with the next record instead of ending
\* the run.
\*   discovery:  a detail record arrived and nothing was persisted
\*   refresh:    store_providers raised for the entity of r_last
\*   enrichment: a lookup returned a record and the UPDATE did not happen
UpsertFailedStep ==
    /\ d_pc = "detail_req"
    /\ d_last_upsert'.done
    /\ ~d_last_upsert'.ok
    /\ d_item' = d_item + 1

RatingUpdateFailedStep ==
    /\ e_pc \in {"by_id", "by_title"}
    /\ processed_in_batch' = processed_in_batch + 1
    /\ e_last'.data # NULL
    /\ now' = now

C18_StoreFailureSkipsRecordOnly ==
    /\ [][UpsertFailedStep => (movie' = movie /\ d_pc' = "item")]_vars
    /\ [](r_last.outcome = "store_failed" => ~(r_pc = "done" /\ ~r_result))
    /\ [][RatingUpdateFailedStep =>
            /\ movie' = movie
            /\ e_pc' = "batch"
            /\ e_i' = e_i + 1]_vars


\* C20: a discovery page with zero results ends the current range at that
\* page without error: the store is left as it is, the run goes on with the
\* first page of the next range (or returns True after the last range), and
\* no page of the range that was left is requested afterwards.
\*   EmptyPageStep: a page request answered 200 whose results start no loop
\*   over entries.
EmptyPageStep ==
    /\ d_pc = "page_req"
    /\ d_last_req'.kind = "page"
    /\ d_last_req'.response = "ok"
    /\ d_pc' # "item"

C20_EmptyPageEndsRange ==
    /\ [][EmptyPageStep =>
            /\ movie' = movie
            /\ IF d_range < Len(d_ranges)
               THEN /\ d_range' = d_range + 1
                    /\ d_page' = 1
                    /\ d_pc' = "page"
                    /\ d_result' = d_result
               ELSE /\ d_pc' = "done"
                    /\ d_result' = TRUE]_vars
    /\ [][d_range' >= d_range]_vars
    /\ [][(d_last_req' # d_last_req /\ d_last_req'.kind = "page") =>
            /\ d_last_req'.range = d_range
            /\ d_pc # "done"]_vars

\* the second page of the first range was empty and the second range is entered
C20_Witness ==
    /\ Len(d_ranges) = 2
    /\ d_range = 2
    /\ d_pc = "page"
    /\ d_page = 1
    /\ d_last_req.kind = "page"
    /\ d_last_req.range = 1
    /\ d_last_req.target = 2
    /\ d_last_req.response = "ok"
    /\ d_result = FALSE


\* C21: the ranges a discovery run processes.  With a starting boundary equal
\* to the start of the k-th configured range the run processes range k and
\* every older range (k+1, ..., last) in listed order; with a boundary that
\* is the start of no configured range it processes none: it returns False,
\* sends no request and writes nothing; with no boundary it processes the
\* latest range only.
BoundaryIndex == {k \in 1..Len(DATE_RANGES) : Some(DATE_RANGES[k][1]) = d_input.start_from_date}

\* the range the run is working on, as a (start, end) pair
CurrentRange == d_ranges[d_range]

C21_RangesProcessed ==
    /\ [](d_pc \notin {"idle", "off"} =>
            /\ d_input.start_from_date = NULL => d_ranges = <<DATE_RANGES[1]>>
            /\ (d_input.start_from_date # NULL /\ BoundaryIndex = {}) =>
                  /\ d_ranges = <<>>
                  /\ d_pc = "done"
                  /\ ~d_result
                  /\ d_last_req = NoRequest
                  /\ ~d_last_upsert.done
            /\ \A k \in BoundaryIndex :
                  /\ Len(d_ranges) = Len(DATE_RANGES) - k + 1
                  /\ \A j \in 1..Len(d_ranges) : d_ranges[j] = DATE_RANGES[k + j - 1]
            /\ d_pc \in {"page_req", "detail_req"} =>
                  /\ d_range \in 1..Len(d_ranges)
                  /\ d_last_req.kind # "none" => d_last_req.range \in {d_range - 1, d_range})
    /\ [][/\ d_ranges # <<>> => d_range' \in {d_range, d_range + 1}
          /\ (d_pc = "idle" /\ d_input.start_from_date # NULL /\ BoundaryIndex = {}) =>
                movie' = movie]_vars
    /\ [][d_pc = "done" => UNCHANGED <<movie, d_last_req, d_range>>]_vars

\* a run resumed from 1960-01-01 has gone through the 1960s and is requesting
\* a page of the oldest range, the last of its two
C21_Witness ==
    /\ d_input.start_from_date = Some("1960-01-01")
    /\ d_ranges = <<DATE_RANGES[7], DATE_RANGES[8]>>
    /\ d_range = 2
    /\ CurrentRange = <<"1900-01-01", "1959-12-31">>
    /\ d_pc = "page_req"
    /\ d_last_req.range = 1


\* C22: across discovery, refresh and enrichment runs an entity row once
\* stored is never deleted: a later sighting of the entity updates its row in
\* place, so every row of the movie table is still there after any step,
\* under the same store-internal id and for the same entity; and an
\* availability row disappears only in the step that replaces the
\* availability set of its own entity.
EntityRowsKept ==
    \A r \in movie : \E q \in movie' : q.id = r.id /\ q.tmdb_id = r.tmdb_id

SnapshotsRemovedOnlyByOwnReplace ==
    \A a \in movie_availability \ movie_availability' :
        /\ r_pc = "loop"
        /\ r_i <= Len(r_movies)
        /\ r_last'.outcome = "stored"
        /\ a.movie_id = r_movies[r_i].id

C22_NothingHardDeleted ==
    [][EntityRowsKept /\ SnapshotsRemovedOnlyByOwnReplace]_vars


\* C23: Phase 2 starts only after Phase 1 has finished, takes its candidates
\* from the store as it is at that moment, and attempts them stalest first:
\* every enriched row it does not select has a last-enriched timestamp at
\* least as recent as every row it selects, the selected rows are in
\* ascending timestamp order, and the k-th attempt of Phase 2 is for the k-th
\* selected row.
\*   Phase2JustSelected: the state right after the Phase 2 SELECT, in which
\*   the store is still the one the SELECT read.
Phase2JustSelected ==
    /\ e_phase = 2
    /\ e_pc = "batch"
    /\ e_i = 1
    /\ processed_in_batch = 0

Enriched == {r \in movie : r.omdb_raw_json # NULL}
StoredRow(id) == CHOOSE r \in movie : r.id = id
SelectedIds == {e_rows[i].id : i \in 1..Len(e_rows)}

C23_Phase2StalestFirst ==
    /\ e_pc = "phase2" => (e_phase = 1 /\ phase1_started = lookups_started)
    /\ Phase2JustSelected =>
          /\ SelectedIds \subseteq {r.id : r \in Enriched}
          /\ Len(e_rows) = Cardinality(SelectedIds)
          /\ Len(e_rows) = Min(TOTAL_DAILY_BUDGET - total_calls_made, Cardinality(Enriched))
          /\ \A i \in 1..Len(e_rows) : e_rows[i] = BatchRow(StoredRow(e_rows[i].id))
          /\ \A r \in Enriched : r.id \notin SelectedIds =>
                \A i \in 1..Len(e_rows) :
                    Get(r.omdb_last_updated) >= Get(StoredRow(e_rows[i].id).omdb_last_updated)
          /\ \A i, j \in 1..Len(e_rows) : i < j =>
                Get(StoredRow(e_rows[i].id).omdb_last_updated)
                   <= Get(StoredRow(e_rows[j].id).omdb_last_updated)
    /\ (e_phase = 2 /\ e_pc \in {"by_id", "by_title"}) =>
          /\ lookups_started - phase1_started = e_i
          /\ e_i \in 1..Len(e_rows)

\* Phase 1 enriched row 1; of the three enriched rows Phase 2 selects the one
\* with the oldest timestamp, row 3
C23_Witness ==
    /\ Phase2JustSelected
    /\ phase1_started = 1
    /\ Cardinality(Enriched) = 3
    /\ Len(e_rows) = 1
    /\ e_rows[1].id = 3
    /\ StoredRow(1).omdb_last_updated = Some(4)


\* C24: after any sequence or interleaving of discovery and refresh runs,
\* every availability row's movie_id is the id of a row that is in the movie
\* table: no availability row is left attached to an id no movie row has.
C24_SnapshotsHaveOwner ==
    \A a \in movie_availability : \E r \in movie : r.id = a.movie_id


\* C25 (as stated): upserting an entity that has already been enriched clears
\* its rating enrichment (rating, vote count, raw payload and last-enriched
\* timestamp are all null afterwards), so the next enrichment run selects it
\* as a Phase 1 candidate again.
\*   ReUpserted(r, q): the step is an upsert that wrote row q for the entity
\*   of the enriched row r.
ReUpserted(r, q) ==
    /\ now' = now
    /\ r \in movie
    /\ r.omdb_raw_json # NULL
    /\ q \in movie'
    /\ q.tmdb_id = r.tmdb_id
    /\ q # r

EnrichmentCleared(q) ==
    /\ q.imdb_rating = NULL
    /\ q.imdb_votes = NULL
    /\ q.omdb_raw_json = NULL
    /\ q.omdb_last_updated = NULL

\* ids of the rows the Phase 1 SELECT of a run started on rows returns
Phase1Candidates(rows) ==
    LET missing_rows == SelectMissing(rows, BUDGET_FOR_MISSING_DATA)
    IN  {missing_rows[i].id : i \in 1..Len(missing_rows)}

C25_UpsertReselectedByPhase1 ==
    [][\A r \in movie : \A q \in movie' : ReUpserted(r, q) =>
          /\ EnrichmentCleared(q)
          /\ q.id \in Phase1Candidates(movie')]_vars

\* C25 (amended): upserting an enriched entity clears its rating enrichment,
\* so the row meets the Phase 1 condition again and no longer the Phase 2
\* one; it has the largest id of the table, and the Phase 1 SELECT (ascending
\* id, limited to the sub-budget) of the next run returns it exactly when the
\* rows without a payload, this one included, are no more than the sub-budget.
Unenriched(rows) == {m \in rows : m.omdb_raw_json = NULL}

C25_UpsertClearsEnrichment ==
    [][\A r \in movie : \A q \in movie' : ReUpserted(r, q) =>
          /\ EnrichmentCleared(q)
          /\ q \in Unenriched(movie')
          /\ \A m \in movie' : m.id <= q.id
          /\ q.id \in Phase1Candidates(movie') <=>
                Cardinality(Unenriched(movie')) <= BUDGET_FOR_MISSING_DATA]_vars

\* row 2 was enriched and upserted again as row 3; with row 1 still without
\* a payload and a sub-budget of 1, Phase 1 of the next run selects row 1 only
C25_Witness ==
    /\ now = 2
    /\ {m.id : m \in movie} = {1, 3}
    /\ Unenriched(movie) = movie
    /\ BUDGET_FOR_MISSING_DATA = 1
    /\ Phase1Candidates(movie) = {1}


\* C26: within one enrichment run no entity is attempted more than once: the
\* row a Phase 2 lookup is running for was not attempted in Phase 1 of the
\* same run.
\*   A row attempted in Phase 1 without a record keeps a null payload and is
\*   not returned by the Phase 2 SELECT; a row Phase 1 enriched carries a
\*   timestamp read during this run.  The run started at clock
\*   Cardinality(movie) + 1 (enrichment adds no row), and Phase 2 writes a
\*   row only after its lookup.
EnrichedInThisRun(id) ==
    /\ StoredRow(id).omdb_last_updated # NULL
    /\ Get(StoredRow(id).omdb_last_updated) > Cardinality(movie)

C26_NoEntityAttemptedTwice ==
    (e_phase = 2 /\ e_pc \in {"by_id", "by_title"}) => ~EnrichedInThisRun(e_rows[e_i].id)


\* C27: when the provider fetch for one entity fails during a refresh run,
\* the run stops at that entity and returns False: the store is left as it
\* is, nothing is fetched or replaced afterwards, the entities before it in
\* scan order keep the rows this run wrote for them, and the entities after
\* it keep the rows they had when the run started.
\*   The run started at clock Cardinality(movie) + 1: rows written in this
\*   run carry a later last_checked_at than any row written before it.
WrittenInThisRun(a) == a.last_checked_at > Cardinality(movie)

C27_FetchFailureStopsRun ==
    /\ [](r_last.outcome = "fetch_failed" =>
            /\ r_pc = "done"
            /\ ~r_result
            /\ r_i \in 1..Len(r_movies)
            /\ r_movies[r_i].id = r_last.movie_id
            /\ \A j \in 1..Len(r_movies) : \A a \in RowsOf(movie_availability, r_movies[j].id) :
                  IF j < r_i THEN WrittenInThisRun(a) ELSE ~WrittenInThisRun(a))
    /\ [][r_last'.outcome = "fetch_failed" => movie_availability' = movie_availability]_vars
    /\ [][r_pc # "done"]_vars

\* the fetch for the second of three entities failed: the first has the rows
\* of this run, the third still has its rows of the earlier run
C27_Witness ==
    /\ r_last.outcome = "fetch_failed"
    /\ r_pc = "done"
    /\ ~r_result
    /\ Len(r_movies) = 3
    /\ r_i = 2
    /\ \E a \in RowsOf(movie_availability, r_movies[1].id) : WrittenInThisRun(a)
    /\ \E a \in RowsOf(movie_availability, r_movies[3].id) : ~WrittenInThisRun(a)

====
